---- MODULE Spec2Model ----
(***************************************************************************)
(* A model of the C-to-C++ translator of src/c_cpp.py (CToCppTranslator)   *)
(* and of the way its callers (src/app.py, c_cpp.main) drive it.           *)
(*                                                                         *)
(* Text is a sequence of atoms.  An atom stands for one lexical unit of    *)
(* the text: one whitespace character, one punctuation character, one      *)
(* chunk of word characters (the regex class \w), one printf conversion    *)
(* ("%d", "%.2f") or one backslash escape ("\\n").  Adjacent word atoms    *)
(* form one identifier, so <<"s","p">> is the identifier sp.  The regular  *)
(* expressions and the str methods of the source are translated to         *)
(* operators on such sequences that scan them the way the re module scans  *)
(* characters.                                                             *)
(***************************************************************************)
EXTENDS Integers, Sequences, FiniteSets, TLC

VARIABLES hashSeed, translator, c_code, cpp_code, pc, result, twin

vars == <<hashSeed, translator, c_code, cpp_code, pc, result, twin>>

(***************************************************************************)
(* Bounds of the model.                                                    *)
(***************************************************************************)
MaxSeed == 1
MaxIncludes == 2
MaxDefines == 2
MaxStmts == 2
MaxItems == 2
MaxUses == 2

(***************************************************************************)
(* Character classes.                                                      *)
(***************************************************************************)
SP == " "
NL == "\n"
QT == "\""
EscN == "\\n"
EscD == "\\d"

SpaceAtoms == {SP, NL}

PlainSpecAtoms == {"%d", "%f", "%s"}
PrecSpecAtoms == {"%.2f"}
SpecAtoms == PlainSpecAtoms \cup PrecSpecAtoms

\* The atoms that are no part of a word: spaces, conversions, escapes,
\* punctuation, and the comments, each one atom.
NonWordAtoms ==
    SpaceAtoms \cup SpecAtoms \cup {EscN, EscD}
    \cup {"(", ")", "{", "}", ";", ",", "*", "=", "<", ">", "-", "&", "[", "]",
          QT, ".", "+", ":", "#", "/"}
    \cup
    {"// C++ style includes", "// Constants (converted from #define)",
     "// Using standard namespace", "// Common math constants",
     "// Global variables", "// C++ style function", "// Main function",
     "// Constructor", "// Methods", "// Class converted from struct",
     "// Method implementations for class",
     "// Use C++ std::swap instead of custom implementation",
     "/* note */"}

DigitAtoms == {"0", "1", "2", "3", "5", "6", "10", "14"}

IsSpace(a) == a \in SpaceAtoms
IsWord(a) == a \notin NonWordAtoms

(***************************************************************************)
(* Sequence helpers: the str operations the source uses.                   *)
(***************************************************************************)
Max(a, b) == IF a > b THEN a ELSE b

Range(s) == {s[i] : i \in DOMAIN s}

\* s[i:j] of Python with 1-based i and exclusive j.
Slice(s, i, j) == SubSeq(s, i, j - 1)

\* s.startswith(lit, i-1)
LitAt(s, i, lit) ==
    /\ i >= 1
    /\ i + Len(lit) - 1 <= Len(s)
    /\ \A k \in 1..Len(lit) : s[i + k - 1] = lit[k]

\* lit in s
Contains(s, lit) == \E i \in 1..(Len(s) + 1) : LitAt(s, i, lit)

\* The first index >= i whose atom is not whitespace (the end of a greedy \s*).
RECURSIVE SkipWs(_, _)
SkipWs(s, i) ==
    IF i <= Len(s) /\ IsSpace(s[i]) THEN SkipWs(s, i + 1) ELSE i

\* The first index >= i whose atom is not a word atom (the end of a greedy \w*).
RECURSIVE WordEnd(_, _)
WordEnd(s, i) ==
    IF i <= Len(s) /\ IsWord(s[i]) THEN WordEnd(s, i + 1) ELSE i

\* The first index >= i whose atom is in stops, or Len(s)+1 (greedy [^stops]*).
RECURSIVE SkipNot(_, _, _)
SkipNot(s, i, stops) ==
    IF i <= Len(s) /\ s[i] \notin stops THEN SkipNot(s, i + 1, stops) ELSE i

\* str.strip()
RECURSIVE RStrip(_)
RStrip(s) ==
    IF Len(s) > 0 /\ IsSpace(s[Len(s)]) THEN RStrip(SubSeq(s, 1, Len(s) - 1))
    ELSE s

Strip(s) == LET r == RStrip(s) IN Slice(r, SkipWs(r, 1), Len(r) + 1)

\* str.replace(old, new): every non-overlapping occurrence, left to right.
RECURSIVE ReplaceFrom(_, _, _, _)
ReplaceFrom(s, i, old, new) ==
    IF i > Len(s) THEN <<>>
    ELSE IF LitAt(s, i, old) THEN new \o ReplaceFrom(s, i + Len(old), old, new)
    ELSE <<s[i]>> \o ReplaceFrom(s, i + 1, old, new)

Replace(s, old, new) == IF old = <<>> THEN s ELSE ReplaceFrom(s, 1, old, new)

\* str.split(sep) for a one-atom separator.
RECURSIVE SplitFrom(_, _, _, _)
SplitFrom(s, i, start, sep) ==
    IF i > Len(s) THEN <<Slice(s, start, i)>>
    ELSE IF s[i] = sep
         THEN <<Slice(s, start, i)>> \o SplitFrom(s, i + 1, i + 1, sep)
         ELSE SplitFrom(s, i + 1, start, sep)

Split(s, sep) == SplitFrom(s, 1, 1, sep)

\* sep.join(lines)
RECURSIVE Join(_, _)
Join(lines, sep) ==
    IF lines = <<>> THEN <<>>
    ELSE IF Len(lines) = 1 THEN lines[1]
    ELSE lines[1] \o sep \o Join(Tail(lines), sep)

RECURSIVE Flatten(_)
Flatten(seqs) == IF seqs = <<>> THEN <<>> ELSE seqs[1] \o Flatten(Tail(seqs))

\* re.findall / re.finditer: the matches of a pattern in s, scanning from i,
\* not overlapping.  at[i] is the match of the pattern that starts at i, a
\* record with field end (the first index after the match), or NoMatch.
NoMatch == [end |-> 0]

RECURSIVE FindAll(_, _, _)
FindAll(at, s, i) ==
    IF i > Len(s) THEN <<>>
    ELSE LET r == at[i]
         IN  IF r.end = 0 THEN FindAll(at, s, i + 1)
             ELSE <<r>> \o FindAll(at, s, Max(r.end, i + 1))

(***************************************************************************)
(* Python containers.  A dict keeps insertion order: a sequence of         *)
(* <<key, value>> entries.  A set of strings is iterated in an order that  *)
(* depends on the strings' hashes, which CPython randomizes per process:   *)
(* the order is a function of the process's hash seed and of the set.      *)
(***************************************************************************)
DictKeys(d) == {d[i][1] : i \in DOMAIN d}

DictGet(d, k) == (CHOOSE i \in DOMAIN d : d[i][1] = k)

DictSet(d, k, v) ==
    IF k \in DictKeys(d)
    THEN [i \in DOMAIN d |-> IF d[i][1] = k THEN <<k, v>> ELSE d[i]]
    ELSE Append(d, <<k, v>>)

RECURSIVE SetToSeq(_)
SetToSeq(S) ==
    IF S = {} THEN <<>>
    ELSE LET x == CHOOSE y \in S : TRUE IN <<x>> \o SetToSeq(S \ {x})

HashOrder(S, seed) ==
    LET base == SetToSeq(S)
        n == Len(base)
        k == IF n = 0 THEN 0 ELSE seed % n
    IN  SubSeq(base, k + 1, n) \o SubSeq(base, 1, k)

(***************************************************************************)
(* CToCppTranslator.__init__                                               *)
(***************************************************************************)
NewTranslator ==
    [includes |-> {},
     defines |-> <<>>,
     structs |-> <<>>,
     struct_to_functions |-> <<>>,
     global_variables |-> {},
     malloc_variables |-> {},
     needs_iomanip |-> FALSE,
     uses |-> 0]

NoTranslator == [uses |-> -1]

(***************************************************************************)
(* identify_includes                                                       *)
(***************************************************************************)
\* r'#include\s+<([^>]+)>'
IncludeAt(s, i) ==
    IF ~LitAt(s, i, <<"#", "include">>) THEN NoMatch
    ELSE LET j == i + 2
             k == SkipWs(s, j)
             e == SkipNot(s, k + 1, {">"})
         IN  IF /\ k > j
                /\ k <= Len(s)
                /\ s[k] = "<"
                /\ e > k + 1
                /\ e <= Len(s)
             THEN [end |-> e + 1, name |-> Slice(s, k + 1, e)]
             ELSE NoMatch

\* re.search(r'%\.[0-9]+[fg]', c_code)
HasPrecisionSpec(s) == \E i \in DOMAIN s : s[i] \in PrecSpecAtoms

identify_includes(t, code) ==
    LET Names(found) == {found[i].name : i \in DOMAIN found}
    IN  [t EXCEPT !.includes = Names(FindAll(
            [ix \in DOMAIN code |-> IncludeAt(code, ix)], code, 1)),
                  !.needs_iomanip = (@ \/ HasPrecisionSpec(code))]

(***************************************************************************)
(* identify_defines                                                        *)
(***************************************************************************)
\* The start of (.+) after \s+ has given back what it must: the last index in
\* from..to whose atom is not a newline, or 0.
RECURSIVE LastNonNewline(_, _, _)
LastNonNewline(s, from, to) ==
    IF to < from THEN 0
    ELSE IF to <= Len(s) /\ s[to] # NL THEN to
    ELSE LastNonNewline(s, from, to - 1)

\* r'#define\s+(\w+)\s+(.+)'
DefineAt(s, i) ==
    IF ~LitAt(s, i, <<"#", "define">>) THEN NoMatch
    ELSE LET j == i + 2
             w == SkipWs(s, j)
             we == WordEnd(s, w)
             se == SkipWs(s, we)
             q == LastNonNewline(s, we + 1, se)
             ve == SkipNot(s, q, {NL})
         IN  IF w > j /\ we > w /\ se > we /\ q > 0
             THEN [end |-> ve, name |-> Slice(s, w, we),
                   value |-> Slice(s, q, ve)]
             ELSE NoMatch

RECURSIVE StoreDefines(_, _)
StoreDefines(d, found) ==
    IF found = <<>> THEN d
    ELSE StoreDefines(DictSet(d, found[1].name, Strip(found[1].value)),
                      Tail(found))

identify_defines(t, code) ==
    [t EXCEPT !.defines = StoreDefines(@, FindAll(
        [ix \in DOMAIN code |-> DefineAt(code, ix)], code, 1))]

(***************************************************************************)
(* Function headers and brace-bounded bodies, shared by the patterns of    *)
(* _is_simple_program, identify_global_variables and _translate_functions. *)
(***************************************************************************)
\* r'(\w+)\s+(\w+)\s*\(([^)]*)\)\s*{' : the match that starts at i, with the
\* index of its opening brace in field brace.
FuncHeadAt(s, i) ==
    LET a == WordEnd(s, i)
        b == SkipWs(s, a)
        c == WordEnd(s, b)
        d == SkipWs(s, c)
        e == SkipNot(s, d + 1, {")"})
        f == SkipWs(s, e + 1)
    IN  IF /\ a > i
           /\ b > a
           /\ c > b
           /\ d <= Len(s)
           /\ s[d] = "("
           /\ e <= Len(s)
           /\ f <= Len(s)
           /\ s[f] = "{"
        THEN [end |-> f + 1, brace |-> f, return_type |-> Slice(s, i, a),
              name |-> Slice(s, b, c), params |-> Slice(s, d + 1, e)]
        ELSE NoMatch

\* r'[^{}]*(?:{[^{}]*}[^{}]*)*}' from p: the index of the closing brace that
\* ends a body with at most one level of inner braces, or 0.
RECURSIVE OneLevelClose(_, _)
OneLevelClose(s, p) ==
    LET q == SkipNot(s, p, {"{", "}"})
    IN  IF q > Len(s) THEN 0
        ELSE IF s[q] = "}" THEN q
        ELSE LET r == SkipNot(s, q + 1, {"{", "}"})
             IN  IF r > Len(s) \/ s[r] = "{" THEN 0
                 ELSE OneLevelClose(s, r + 1)

\* r'(\w+)\s+(\w+)\s*\(([^)]*)\)\s*{([^{}]*(?:{[^{}]*}[^{}]*)*?)}'
FunctionAt(s, i) ==
    LET Block(h, close) ==
            IF close = 0 THEN NoMatch
            ELSE [end |-> close + 1, start |-> i,
                  return_type |-> h.return_type, name |-> h.name,
                  params |-> h.params, body |-> Slice(s, h.brace + 1, close)]
        Closed(h) ==
            Block(h, IF h.end = 0 THEN 0 ELSE OneLevelClose(s, h.brace + 1))
    IN  Closed(FuncHeadAt(s, i))

(***************************************************************************)
(* _is_simple_program                                                      *)
(***************************************************************************)
\* r'int\s+main\s*\('
MainCallAt(s, i) ==
    LET k == SkipWs(s, i + 1)
        m == SkipWs(s, k + 1)
    IN  IF /\ LitAt(s, i, <<"int">>)
           /\ k > i + 1
           /\ LitAt(s, k, <<"main">>)
           /\ LitAt(s, m, <<"(">>)
        THEN [end |-> m + 1]
        ELSE NoMatch

\* The words of simple_patterns (searched ignoring case).
SimpleWords ==
    {"isPrime", "isprime", "compoundInterest", "fibonacci", "factorial",
     "triangle", "square", "circle", "celsius", "fahrenheit", "ASCII", "ascii"}

\* 'printf.*scanf': a printf followed by a scanf on the same line.
PrintfThenScanf(s) ==
    \E i, j \in DOMAIN s :
        /\ i < j
        /\ s[i] = "printf"
        /\ s[j] = "scanf"
        /\ \A k \in i..j : s[k] # NL

_is_simple_program(code) ==
    LET main_count == Len(FindAll(
            [ix \in DOMAIN code |-> MainCallAt(code, ix)], code, 1))
        other_funcs == FindAll(
            [ix \in DOMAIN code |-> FuncHeadAt(code, ix)], code, 1)
        NotMain(f) == f.name # <<"main">>
        other_func_count == Len(SelectSeq(other_funcs, NotMain))
    IN  IF main_count # 1 THEN FALSE
        ELSE IF other_func_count > 0 THEN FALSE
        ELSE \/ \E i \in DOMAIN code : code[i] \in SimpleWords
             \/ PrintfThenScanf(code)

(***************************************************************************)
(* identify_global_variables                                               *)
(***************************************************************************)
\* Each matched block is removed wherever it occurs in the remaining code.
RECURSIVE RemoveBlocks(_, _)
RemoveBlocks(s, blocks) ==
    IF blocks = <<>> THEN s
    ELSE RemoveBlocks(Replace(s, blocks[1], <<>>), Tail(blocks))

\* r'(\w+)\s+(\w+)\s*=\s*[^;]+;' from j, after the optional (const\s+)?
VarRestAt(s, j, const) ==
    LET a == WordEnd(s, j)
        b == SkipWs(s, a)
        c == WordEnd(s, b)
        d == SkipWs(s, c)
        semi == SkipNot(s, d + 1, {";"})
    IN  IF /\ a > j
           /\ b > a
           /\ c > b
           /\ d <= Len(s)
           /\ s[d] = "="
           /\ semi > d + 1
           /\ semi <= Len(s)
        THEN [end |-> semi + 1,
              var |-> <<const, Slice(s, j, a), Slice(s, b, c)>>]
        ELSE NoMatch

\* r'(const\s+)?(\w+)\s+(\w+)\s*=\s*[^;]+;'
GlobalVarAt(s, i) ==
    LET WithConst(j) ==
            IF LitAt(s, i, <<"const">>) /\ j > i + 1
            THEN VarRestAt(s, j, Slice(s, i, j))
            ELSE NoMatch
        Either(with) == IF with.end # 0 THEN with ELSE VarRestAt(s, i, <<>>)
    IN  Either(WithConst(SkipWs(s, i + 1)))

identify_global_variables(t, code) ==
    LET Texts(function_blocks) ==
            [k \in DOMAIN function_blocks |->
                Slice(code, function_blocks[k].start, function_blocks[k].end)]
        remaining_code ==
            RemoveBlocks(code, Texts(FindAll(
                [ix \in DOMAIN code |-> FunctionAt(code, ix)], code, 1)))
        Vars(found) == {found[k].var : k \in DOMAIN found}
    IN  [t EXCEPT
            !.global_variables = Vars(FindAll(
                [ix \in DOMAIN remaining_code |->
                    GlobalVarAt(remaining_code, ix)],
                remaining_code, 1))]

(***************************************************************************)
(* identify_structs                                                        *)
(***************************************************************************)
\* r'struct\s+(\w+)\s*{([^}]*)}'
StructAt(s, i) ==
    LET j == SkipWs(s, i + 1)
        b == WordEnd(s, j)
        c == SkipWs(s, b)
        e == SkipNot(s, c + 1, {"}"})
    IN  IF /\ LitAt(s, i, <<"struct">>)
           /\ j > i + 1
           /\ b > j
           /\ LitAt(s, c, <<"{">>)
           /\ e <= Len(s)
        THEN [end |-> e + 1, name |-> Slice(s, j, b),
              body |-> Slice(s, c + 1, e)]
        ELSE NoMatch

RECURSIVE StoreStructs(_, _)
StoreStructs(t, found) ==
    IF found = <<>> THEN t
    ELSE StoreStructs(
             [t EXCEPT
                 !.structs = DictSet(@, found[1].name, Strip(found[1].body)),
                 !.struct_to_functions = DictSet(@, found[1].name, <<>>)],
             Tail(found))

identify_structs(t, code) ==
    StoreStructs(t, FindAll([ix \in DOMAIN code |-> StructAt(code, ix)],
                            code, 1))

(***************************************************************************)
(* identify_struct_functions                                               *)
(***************************************************************************)
\* rf'(\w+)\s+(\w+)\s*\(\s*struct\s+{struct_name}\s*\*\s*(\w+)([^)]*)\)\s*{{([^}}]*)}}'
StructFunctionAt(s, i, struct_name) ==
    LET a == WordEnd(s, i)
        b == SkipWs(s, a)
        c == WordEnd(s, b)
        d == SkipWs(s, c)
        e == SkipWs(s, d + 1)
        f == SkipWs(s, e + 1)
        g == f + Len(struct_name)
        h == SkipWs(s, g)
        k == SkipWs(s, h + 1)
        l == WordEnd(s, k)
        m == SkipNot(s, l, {")"})
        n == SkipWs(s, m + 1)
        o == SkipNot(s, n + 1, {"}"})
    IN  IF /\ a > i
           /\ b > a
           /\ c > b
           /\ LitAt(s, d, <<"(">>)
           /\ LitAt(s, e, <<"struct">>)
           /\ f > e + 1
           /\ LitAt(s, f, struct_name)
           /\ LitAt(s, h, <<"*">>)
           /\ l > k
           /\ m <= Len(s)
           /\ LitAt(s, n, <<"{">>)
           /\ o <= Len(s)
        THEN [end |-> o + 1,
              func |-> [name |-> Slice(s, b, c),
                        return_type |-> Slice(s, i, a),
                        param_name |-> Slice(s, k, l),
                        other_params |-> Slice(s, l, m),
                        body |-> Slice(s, n + 1, o)]]
        ELSE NoMatch

RECURSIVE StoreStructFunctions(_, _, _)
StoreStructFunctions(t, code, names) ==
    IF names = <<>> THEN t
    ELSE LET At(s, i) == StructFunctionAt(s, i, names[1])
             Funcs(found) == [k \in DOMAIN found |-> found[k].func]
             old == t.struct_to_functions[DictGet(t.struct_to_functions,
                                                  names[1])][2]
             new == old \o Funcs(FindAll(
                 [ix \in DOMAIN code |-> At(code, ix)], code, 1))
         IN  StoreStructFunctions(
                 [t EXCEPT !.struct_to_functions = DictSet(@, names[1], new)],
                 code, Tail(names))

identify_struct_functions(t, code) ==
    StoreStructFunctions(t, code,
                         [k \in DOMAIN t.structs |-> t.structs[k][1]])

(***************************************************************************)
(* Output text.  A literal of the source is written with the atoms a       *)
(* source text would have for it.                                          *)
(***************************************************************************)
indent_str == <<SP, SP, SP, SP>>

IncludeLine(name) == <<"#", "include", SP, "<">> \o name \o <<">">>

Header(base) == <<base, ".", "h">>

(***************************************************************************)
(* _translate_includes                                                     *)
(***************************************************************************)
c_to_cpp_headers ==
    << <<Header("stdio"), <<"iostream">> >>,
       <<Header("stdlib"), <<"cstdlib">> >>,
       <<Header("string"), <<"string">> >>,
       <<Header("math"), <<"cmath">> >>,
       <<Header("time"), <<"ctime">> >>,
       <<Header("assert"), <<"cassert">> >>,
       <<Header("ctype"), <<"cctype">> >>,
       <<Header("float"), <<"cfloat">> >>,
       <<Header("limits"), <<"climits">> >>,
       <<Header("locale"), <<"clocale">> >>,
       <<Header("signal"), <<"csignal">> >>,
       <<Header("stdarg"), <<"cstdarg">> >>,
       <<Header("stdbool"), <<"cstdbool">> >>,
       <<Header("stddef"), <<"cstddef">> >>,
       <<Header("stdint"), <<"cstdint">> >> >>

\* The line emitted for one element of self.includes (lines 178-185).
MappedIncludeLines(include) ==
    IF include = <<"functional">> THEN <<>>
    ELSE IF include \in DictKeys(c_to_cpp_headers)
    THEN <<IncludeLine(c_to_cpp_headers[DictGet(c_to_cpp_headers, include)][2])>>
    ELSE <<IncludeLine(include)>>

_translate_includes(t, seed) ==
    LET order == HashOrder(t.includes, seed)
    IN  <<  <<"// C++ style includes">>  >>
        \o (IF t.needs_iomanip THEN <<IncludeLine(<<"iomanip">>)>> ELSE <<>>)
        \o (IF <<"functional">> \in t.includes
            THEN <<IncludeLine(<<"functional">>)>> ELSE <<>>)
        \o <<IncludeLine(<<"algorithm">>)>>
        \o Flatten([k \in DOMAIN order |-> MappedIncludeLines(order[k])])

(***************************************************************************)
(* _translate_defines                                                      *)
(***************************************************************************)
\* The atoms whose text holds a '.' character.
DotAtoms == {"."} \cup PrecSpecAtoms

IsDigitText(v) == v # <<>> /\ \A k \in DOMAIN v : v[k] \in DigitAtoms

\* DefineType with the tests for '.' and for the quotes in the other order.
DefineType_DotFirst(value) ==
    IF \E k \in DOMAIN value : value[k] \in DotAtoms THEN "double"
    ELSE IF value # <<>> /\ value[1] = QT /\ value[Len(value)] = QT
    THEN "string"
    ELSE IF IsDigitText(value) THEN "int"
    ELSE "auto"

\* The type chosen for a value (lines 134-141).
DefineType(value) ==
    IF value # <<>> /\ value[1] = QT /\ value[Len(value)] = QT THEN "string"
    ELSE IF \E k \in DOMAIN value : value[k] \in DotAtoms THEN "double"
    ELSE IF IsDigitText(value) THEN "int"
    ELSE "auto"

DefineLine(name, value) ==
    <<"const", SP, DefineType(value), SP>> \o name \o <<SP, "=", SP>>
        \o value \o <<";">>

_translate_defines(t) ==
    IF t.defines = <<>> THEN <<>>
    ELSE <<  <<"// Constants (converted from #define)">>  >>
         \o [k \in DOMAIN t.defines |->
                DefineLine(t.defines[k][1], t.defines[k][2])]

(***************************************************************************)
(* translate, lines 43-54: the namespace directive and the math constants  *)
(***************************************************************************)
NamespaceLines(t) ==
    << <<"// Using standard namespace">>,
       <<"using", SP, "namespace", SP, "std", ";">> >>
    \o (IF Header("math") \in t.includes /\ <<"PI">> \notin DictKeys(t.defines)
        THEN << <<>>,
                <<"// Common math constants">>,
                <<"const", SP, "double", SP, "PI", SP, "=", SP,
                  "3", ".", "14159265358979323846", ";">>,
                <<"const", SP, "double", SP, "E", SP, "=", SP,
                  "2", ".", "71828182845904523536", ";">> >>
        ELSE <<>>)
    \o << <<>> >>

(***************************************************************************)
(* _translate_global_variables                                             *)
(***************************************************************************)
_translate_global_variables(t, seed) ==
    IF t.global_variables = {} THEN <<>>
    ELSE LET order == HashOrder(t.global_variables, seed)
         IN  <<  <<"// Global variables">>  >>
             \o [k \in DOMAIN order |->
                    order[k][1] \o order[k][2] \o <<SP>> \o order[k][3]
                        \o <<";">>]

(***************************************************************************)
(* _translate_structs_to_classes                                           *)
(***************************************************************************)
\* Lines 242-244: one member line per non-blank piece of the struct body.
FieldLines(struct_body) ==
    LET pieces == Split(struct_body, ";")
        NonBlank(p) == Strip(p) # <<>>
        kept == SelectSeq(pieces, NonBlank)
    IN  [k \in DOMAIN kept |-> indent_str \o Strip(kept[k]) \o <<";">>]

\* Line 258: the declaration of one method inside the class.
MethodDeclaration(func) ==
    indent_str \o func.return_type \o <<SP>> \o func.name \o <<"(">>
        \o Strip(func.other_params) \o <<")", ";">>

\* Lines 269-271: the body with the struct pointer turned into this.
MethodBody(func) ==
    Replace(Replace(func.body, func.param_name \o <<">">>,
                    <<"this", "-", ">">>),
            func.param_name \o <<".">>, <<"this", ".">>)

\* Lines 273-275: the out-of-line definition of one method.
MethodImplementation(struct_name, func) ==
    << func.return_type \o <<SP>> \o struct_name \o <<":", ":">> \o func.name
           \o <<"(">> \o Strip(func.other_params) \o <<")", SP, "{">>,
       MethodBody(func),
       <<"}">> >>

StructFunctions(t, struct_name) ==
    IF struct_name \in DictKeys(t.struct_to_functions)
    THEN t.struct_to_functions[DictGet(t.struct_to_functions, struct_name)][2]
    ELSE <<>>

ClassLines(t, struct_name, struct_body) ==
    LET funcs == StructFunctions(t, struct_name)
    IN  << <<"// Class converted from struct", SP>> \o struct_name,
           <<"class", SP>> \o struct_name \o <<SP, "{">>,
           <<"public", ":">> >>
        \o FieldLines(struct_body)
        \o << <<NL>> \o indent_str \o <<"// Constructor">>,
              indent_str \o struct_name \o <<"(", ")", SP, "{", "}">> >>
        \o (IF funcs # <<>>
            THEN << <<NL>> \o indent_str \o <<"// Methods">> >>
                 \o [k \in DOMAIN funcs |-> MethodDeclaration(funcs[k])]
            ELSE <<>>)
        \o << <<"}", ";">> >>
        \o (IF funcs # <<>>
            THEN << <<NL, "// Method implementations for class", SP>>
                        \o struct_name >>
                 \o Flatten([k \in DOMAIN funcs |->
                                MethodImplementation(struct_name, funcs[k])])
            ELSE <<>>)

_translate_structs_to_classes(t) ==
    Flatten([k \in DOMAIN t.structs |->
                ClassLines(t, t.structs[k][1], t.structs[k][2])])

(***************************************************************************)
(* _process_function_body, lines 330-350: malloc and free                  *)
(***************************************************************************)
\* The part the two malloc patterns share,
\* r'(\w+)\s*=\s*\((\w+)\s*\*\)\s*malloc\(sizeof\((\w+)\)' : field next is the
\* index after it.
MallocHeadAt(s, i) ==
    LET a == WordEnd(s, i)
        b == SkipWs(s, a)
        c == SkipWs(s, b + 1)
        d == WordEnd(s, c + 1)
        e == SkipWs(s, d)
        f == SkipWs(s, e + 2)
        g == WordEnd(s, f + 4)
    IN  IF /\ a > i
           /\ LitAt(s, b, <<"=">>)
           /\ LitAt(s, c, <<"(">>)
           /\ d > c + 1
           /\ LitAt(s, e, <<"*", ")">>)
           /\ LitAt(s, f, <<"malloc", "(", "sizeof", "(">>)
           /\ g > f + 4
           /\ LitAt(s, g, <<")">>)
        THEN [end |-> g + 1, next |-> g + 1, var_name |-> Slice(s, i, a),
              type_name |-> Slice(s, c + 1, d),
              alloc_type |-> Slice(s, f + 4, g)]
        ELSE NoMatch

\* malloc_pattern: ... r'\s*\*\s*(\w+)\);'
ArrayMallocAt(s, i) ==
    LET Sized(m, h, k, l) ==
            IF /\ LitAt(s, h, <<"*">>)
               /\ l > k
               /\ LitAt(s, l, <<")", ";">>)
            THEN [m EXCEPT !.end = l + 2] @@ [size |-> Slice(s, k, l)]
            ELSE NoMatch
        FromSize(m, h, k) == Sized(m, h, k, WordEnd(s, k))
        FromStar(m, h) == FromSize(m, h, SkipWs(s, h + 1))
        FromHead(m) ==
            IF m.end = 0 THEN NoMatch ELSE FromStar(m, SkipWs(s, m.next))
    IN  FromHead(MallocHeadAt(s, i))

\* single_malloc_pattern: ... r'\);'
SingleMallocAt(s, i) ==
    LET FromHead(m) ==
            IF m.end # 0 /\ LitAt(s, m.next, <<")", ";">>)
            THEN [m EXCEPT !.end = m.next + 2]
            ELSE NoMatch
    IN  FromHead(MallocHeadAt(s, i))

\* found[k][1] is replaced by found[k][2] wherever it occurs, in turn.
RECURSIVE ReplaceEach(_, _)
ReplaceEach(body, pairs) ==
    IF pairs = <<>> THEN body
    ELSE ReplaceEach(Replace(body, pairs[1][1], pairs[1][2]), Tail(pairs))

FreeText(var) == <<"free", "(">> \o var \o <<")", ";">>

\* Lines 347-350: the deallocation that replaces free(var); in this body.
DeleteText(body, var) ==
    IF /\ Contains(body, var \o <<SP, "=", SP, "new", SP>>)
       /\ Contains(body, var \o <<"[">>)
    THEN <<"delete", "[", "]", SP>> \o var \o <<";">>
    ELSE <<"delete", SP>> \o var \o <<";">>

RECURSIVE ReplaceFrees(_, _)
ReplaceFrees(body, order) ==
    IF order = <<>> THEN body
    ELSE ReplaceFrees(Replace(body, FreeText(order[1]),
                              DeleteText(body, order[1])),
                      Tail(order))

\* Lines 330-350: the body and the variables recorded.
AllocationPass(malloc_variables, body, seed) ==
    LET \* Line 335: the text that is looked for, with the spacing the code
        \* writes, f"{var_name} = ({type_name} *)malloc(...)".
        MallocText(m) ==
            m.var_name \o <<SP, "=", SP, "(">> \o m.type_name
                \o <<SP, "*", ")", "malloc", "(", "sizeof", "(">>
                \o m.alloc_type
        \* Lines 334-335
        ArrayPairs(arrays) ==
            [k \in DOMAIN arrays |->
                <<MallocText(arrays[k]) \o <<")", SP, "*", SP>>
                      \o arrays[k].size \o <<")", ";">>,
                  arrays[k].var_name \o <<SP, "=", SP, "new", SP>>
                      \o arrays[k].alloc_type \o <<"[">> \o arrays[k].size
                      \o <<"]", ";">> >>]
        \* Lines 341-342
        SinglePairs(singles) ==
            [k \in DOMAIN singles |->
                <<MallocText(singles[k]) \o <<")", ")", ";">>,
                  singles[k].var_name \o <<SP, "=", SP, "new", SP>>
                      \o singles[k].alloc_type \o <<";">> >>]
        Names(found) == {found[k].var_name : k \in DOMAIN found}
        \* Lines 345-350
        Freed(body2, recorded) ==
            [malloc_variables |-> recorded,
             body |-> ReplaceFrees(body2, HashOrder(recorded, seed))]
        \* Lines 338-343
        Singles(arrays, body1, singles) ==
            Freed(ReplaceEach(body1, SinglePairs(singles)),
                  malloc_variables \cup Names(arrays) \cup Names(singles))
        AfterArrays(arrays, body1) ==
            Singles(arrays, body1, FindAll(
                [ix \in DOMAIN body1 |-> SingleMallocAt(body1, ix)], body1, 1))
        \* Lines 331-336
        Arrays(arrays) ==
            AfterArrays(arrays, ReplaceEach(body, ArrayPairs(arrays)))
    IN  Arrays(FindAll(
            [ix \in DOMAIN body |-> ArrayMallocAt(body, ix)], body, 1))


(***************************************************************************)
(* _process_function_body, lines 352-404: printf                           *)
(***************************************************************************)
\* r'printf\("([^"\\]*(?:\\.[^"\\]*)*)"(?:\s*,\s*([^;]*))?\);'
\* has_args tells whether the optional group took part in the match.
PrintfAt(s, i) ==
    LET q == SkipNot(s, i + 3, {QT})
        c == SkipWs(s, q + 1)
        a0 == SkipWs(s, c + 1)
        semi == SkipNot(s, a0, {";"})
    IN  IF ~(LitAt(s, i, <<"printf", "(", QT>>) /\ q <= Len(s)) THEN NoMatch
        ELSE IF /\ LitAt(s, c, <<",">>)
                /\ semi <= Len(s)
                /\ semi - 1 >= a0
                /\ s[semi - 1] = ")"
        THEN [end |-> semi + 1, format_str |-> Slice(s, i + 3, q),
              has_args |-> TRUE, args |-> Slice(s, a0, semi - 1),
              text |-> Slice(s, i, semi + 1)]
        ELSE IF LitAt(s, q + 1, <<")", ";">>)
        THEN [end |-> q + 3, format_str |-> Slice(s, i + 3, q),
              has_args |-> FALSE, args |-> <<>>,
              text |-> Slice(s, i, q + 3)]
        ELSE NoMatch

\* re.split(r'(%[diouxXfFeEgGaAcspn]|%\.\d+[fg])', format_str) without its
\* empty strings: the conversions, and the runs of text between them.
RECURSIVE FormatParts(_, _)
FormatParts(f, i) ==
    IF i > Len(f) THEN <<>>
    ELSE IF f[i] \in SpecAtoms THEN << <<f[i]>> >> \o FormatParts(f, i + 1)
    ELSE LET e == SkipNot(f, i, SpecAtoms)
         IN  <<Slice(f, i, e)>> \o FormatParts(f, e)

\* group(1) of r'%\.(\d+)([fg])'
PrecisionOf(spec) == IF spec = "%.2f" THEN "2" ELSE "0"

Shift == <<SP, "<", "<", SP>>

\* Lines 373-389: what the parts from the k-th on add to cout_expr.
RECURSIVE CoutParts(_, _, _, _)
CoutParts(parts, k, arg_list, arg_idx) ==
    IF k > Len(parts) THEN <<>>
    ELSE LET part == parts[k]
             more == arg_idx < Len(arg_list)
         IN  IF part[1] \in PrecSpecAtoms
             THEN (IF more
                   THEN <<"fixed">> \o Shift
                        \o <<"setprecision", "(", PrecisionOf(part[1]), ")">>
                        \o Shift \o arg_list[arg_idx + 1] \o Shift
                   ELSE <<>>)
                  \o CoutParts(parts, k + 1, arg_list,
                               IF more THEN arg_idx + 1 ELSE arg_idx)
             ELSE IF part[1] \in PlainSpecAtoms
             THEN (IF more THEN arg_list[arg_idx + 1] \o Shift ELSE <<>>)
                  \o CoutParts(parts, k + 1, arg_list,
                               IF more THEN arg_idx + 1 ELSE arg_idx)
             ELSE <<QT>> \o part \o <<QT>> \o Shift
                  \o CoutParts(parts, k + 1, arg_list, arg_idx)

EndsWithNewlineEscape(f) == f # <<>> /\ f[Len(f)] = EscN

StripEach(parts) == [k \in DOMAIN parts |-> Strip(parts[k])]

\* Lines 358-404: the statement that replaces one printf call.
CoutExpr(m) ==
    IF m.has_args /\ m.args # <<>>
    THEN LET cout_expr ==
                 <<"cout">> \o Shift
                 \o CoutParts(FormatParts(m.format_str, 1), 1,
                              StripEach(Split(m.args, ",")), 0)
         IN  IF EndsWithNewlineEscape(m.format_str)
             THEN cout_expr \o <<"endl", ";">>
             ELSE SubSeq(cout_expr, 1, Len(cout_expr) - 4) \o <<";">>
    ELSE IF EndsWithNewlineEscape(m.format_str)
    THEN <<"cout">> \o Shift \o <<QT>>
         \o SubSeq(m.format_str, 1, Len(m.format_str) - 1)
         \o <<QT>> \o Shift \o <<"endl", ";">>
    ELSE <<"cout">> \o Shift \o <<QT>> \o m.format_str \o <<QT, ";">>

PrintfPass(body) ==
    LET Pairs(found) ==
            [k \in DOMAIN found |-> <<found[k].text, CoutExpr(found[k])>>]
    IN  ReplaceEach(body, Pairs(FindAll(
            [ix \in DOMAIN body |-> PrintfAt(body, ix)], body, 1)))

(***************************************************************************)
(* _process_function_body, lines 406-417: scanf                            *)
(***************************************************************************)
\* r'scanf\("([^"]+)",\s*([^)]+)\);'
ScanfAt(s, i) ==
    LET q == SkipNot(s, i + 3, {QT})
        a0 == SkipWs(s, q + 2)
        r == SkipNot(s, q + 2, {")"})
        from == IF a0 < r THEN a0 ELSE r - 1
    IN  IF /\ LitAt(s, i, <<"scanf", "(", QT>>)
           /\ q > i + 3
           /\ LitAt(s, q, <<QT, ",">>)
           /\ r > q + 2
           /\ LitAt(s, r, <<")", ";">>)
        THEN [end |-> r + 2, format_str |-> Slice(s, i + 3, q),
              args |-> Slice(s, from, r)]
        ELSE NoMatch

\* Lines 412-415
RECURSIVE CinExpr(_)
CinExpr(arg_list) ==
    IF arg_list = <<>> THEN <<>>
    ELSE LET arg == arg_list[1]
             bare == IF arg # <<>> /\ arg[1] = "&" THEN Tail(arg) ELSE arg
         IN  <<"cin", SP, ">", ">", SP>> \o bare \o <<";", SP>>
             \o CinExpr(Tail(arg_list))

ScanfPass(body) ==
    LET \* Line 409: the text that is looked for, with the spacing the code
        \* writes.
        ScanfText(m) ==
            <<"scanf", "(", QT>> \o m.format_str \o <<QT, ",", SP>> \o m.args
                \o <<")", ";">>
        Pairs(found) ==
            [k \in DOMAIN found |->
                <<ScanfText(found[k]),
                  CinExpr(StripEach(Split(found[k].args, ",")))>>]
    IN  ReplaceEach(body, Pairs(FindAll(
            [ix \in DOMAIN body |-> ScanfAt(body, ix)], body, 1)))

(***************************************************************************)
(* _process_function_body, lines 419-434: math functions                   *)
(***************************************************************************)
math_functions ==
    {"sin", "cos", "tan", "asin", "acos", "atan", "atan2", "sinh", "cosh",
     "tanh", "exp", "log", "log10", "pow", "sqrt", "ceil", "floor", "fabs",
     "fmod"}

\* r'\b' + func + r'\(' at i
MathCallAt(s, i) ==
    /\ s[i] \in math_functions
    /\ LitAt(s, i + 1, <<"(">>)
    /\ (i = 1 \/ ~IsWord(s[i - 1]))

MathPass(includes, body) ==
    IF Header("math") \in includes
    THEN Flatten([i \in DOMAIN body |->
                     IF MathCallAt(body, i) THEN <<"std", ":", ":", body[i]>>
                     ELSE <<body[i]>>])
    ELSE body

(***************************************************************************)
(* _process_function_body, lines 436-453: the swap idiom                   *)
(***************************************************************************)
\* swap_pattern,
\* r'void\s+swap\s*\(\s*(\w+)\s*\*\s*a\s*,\s*(\w+)\s*\*\s*b\s*\)' :
\* field next is the index after the closing parenthesis.
SwapHeadAt(s, i) ==
    LET j == SkipWs(s, i + 1)
        k == SkipWs(s, j + 1)
        l == SkipWs(s, k + 1)
        m == WordEnd(s, l)
        n == SkipWs(s, m)
        o == SkipWs(s, n + 1)
        p == SkipWs(s, o + 1)
        q == SkipWs(s, p + 1)
        r == WordEnd(s, q)
        u == SkipWs(s, r)
        v == SkipWs(s, u + 1)
        w == SkipWs(s, v + 1)
    IN  IF /\ LitAt(s, i, <<"void">>)
           /\ j > i + 1
           /\ LitAt(s, j, <<"swap">>)
           /\ LitAt(s, k, <<"(">>)
           /\ m > l
           /\ LitAt(s, n, <<"*">>)
           /\ LitAt(s, o, <<"a">>)
           /\ LitAt(s, p, <<",">>)
           /\ r > q
           /\ LitAt(s, u, <<"*">>)
           /\ LitAt(s, v, <<"b">>)
           /\ LitAt(s, w, <<")">>)
        THEN [end |-> w + 1, next |-> w + 1]
        ELSE NoMatch

\* swap_impl_pattern: swap_pattern followed by r'\s*{([^}]*)}'
SwapImplAt(s, i) ==
    LET Braced(x, y) ==
            IF LitAt(s, x, <<"{">>) /\ y <= Len(s)
            THEN [end |-> y + 1, start |-> i, impl_body |-> Slice(s, x + 1, y)]
            ELSE NoMatch
        FromBrace(x) == Braced(x, SkipNot(s, x + 1, {"}"}))
        FromHead(h) ==
            IF h.end = 0 THEN NoMatch ELSE FromBrace(SkipWs(s, h.next))
    IN  FromHead(SwapHeadAt(s, i))

\* Line 452
SwapTemplate ==
    <<"// Use C++ std::swap instead of custom implementation", NL,
      "template", "<", "typename", SP, "T", ">", NL,
      "void", SP, "swap", "(", "T", "*", SP, "a", ",", SP, "T", "*", SP, "b",
      ")", SP, "{", NL,
      SP, SP, SP, SP, "std", ":", ":", "swap", "(", "*", "a", ",", SP, "*", "b",
      ")", ";", NL, "}">>

\* re.sub(pattern, replacement, s) for a replacement without escapes: every
\* match at, scanning from i, is replaced.
RECURSIVE SubAll(_, _, _, _)
SubAll(at, s, i, replacement) ==
    IF i > Len(s) THEN <<>>
    ELSE LET r == at[i]
         IN  IF r.end = 0 THEN <<s[i]>> \o SubAll(at, s, i + 1, replacement)
             ELSE replacement \o SubAll(at, s, r.end, replacement)

SwapPass(body) ==
    LET IsIdiom(impls) ==
            /\ impls # <<>>
            /\ Contains(impls[1].impl_body, <<"temp">>)
            /\ Contains(impls[1].impl_body, <<"*", "a">>)
            /\ Contains(impls[1].impl_body, <<"*", "b">>)
    IN  IF /\ FindAll(
            [ix \in DOMAIN body |-> SwapHeadAt(body, ix)], body, 1) # <<>>
           /\ IsIdiom(FindAll(
               [ix \in DOMAIN body |-> SwapImplAt(body, ix)], body, 1))
        THEN SubAll([ix \in DOMAIN body |-> SwapImplAt(body, ix)], body, 1,
                    SwapTemplate)
        ELSE body

(***************************************************************************)
(* _process_function_body, lines 455-473: function pointers                *)
(***************************************************************************)
\* The starts x in lo..hi of a (.+) that a ';' on the same line can follow.
InitializerStarts(s, lo, hi) ==
    {x \in lo..hi :
        /\ x <= Len(s)
        /\ s[x] # NL
        /\ \E y \in (x + 1)..(SkipNot(s, x, {NL}) - 1) : s[y] = ";"}

SetMax(S) == CHOOSE x \in S : \A y \in S : y <= x

\* func_ptr_pattern, r'(\w+)\s+\(\*(\w+)\)\(([^)]*)\)\s*=\s*(.+);'
FuncPtrAt(s, i) ==
    LET a == WordEnd(s, i)
        b == SkipWs(s, a)
        c == WordEnd(s, b + 2)
        d == SkipNot(s, c + 2, {")"})
        e == SkipWs(s, d + 1)
        f == SkipWs(s, e + 1)
        starts == InitializerStarts(s, e + 1, f)
    IN  IF /\ a > i
           /\ b > a
           /\ LitAt(s, b, <<"(", "*">>)
           /\ c > b + 2
           /\ LitAt(s, c, <<")", "(">>)
           /\ d <= Len(s)
           /\ LitAt(s, e, <<"=">>)
           /\ starts # {}
        THEN LET x == SetMax(starts)
                 semi == SetMax({y \in (x + 1)..(SkipNot(s, x, {NL}) - 1) :
                                    s[y] = ";"})
             IN  [end |-> semi + 1, start |-> i,
                  return_type |-> Slice(s, i, a),
                  ptr_name |-> Slice(s, b + 2, c),
                  params |-> Slice(s, c + 2, d),
                  func_ref |-> Slice(s, x, semi)]
        ELSE NoMatch

\* Lines 459-468: the replacement template built for one declaration.
FuncPtrReplacement(m) ==
    LET NonEmpty(p) == p # <<>>
        cpp_params == SelectSeq(StripEach(Split(m.params, ",")), NonEmpty)
    IN  <<"function", "<">> \o m.return_type \o <<"(">>
        \o Join(cpp_params, <<",", SP>>) \o <<")", ">", SP>> \o m.ptr_name
        \o <<SP, "=", SP>> \o m.func_ref \o <<";">>

\* What re.sub makes of the escapes of a replacement template: r'\n' becomes a
\* newline; an escape it does not know is an error (re.error, bad escape).
TemplateHasBadEscape(template) == EscD \in Range(template)

ExpandTemplate(template) ==
    [k \in DOMAIN template |-> IF template[k] = EscN THEN NL ELSE template[k]]

\* re.sub(pattern, replacement, s, count=1)
SubFirst(at, s, replacement) ==
    LET First(found) ==
            IF found = <<>> THEN s
            ELSE SubSeq(s, 1, found[1].start - 1) \o replacement
                 \o SubSeq(s, found[1].end, Len(s))
    IN  First(FindAll(at, s, 1))

\* Line 472
NamesFunctional(includes) ==
    \E include \in includes : "functional" \in Range(include)

\* Lines 458-473, for the declarations found from the k-th on.
RECURSIVE FuncPtrLoop(_, _, _)
FuncPtrLoop(st, found, k) ==
    IF k > Len(found) \/ st.raised THEN st
    ELSE LET Substitute(template) ==
                 IF TemplateHasBadEscape(template)
                 THEN [st EXCEPT !.raised = TRUE]
                 ELSE FuncPtrLoop(
                          [st EXCEPT
                              !.body = SubFirst(
                                  [ix \in DOMAIN st.body |->
                                      FuncPtrAt(st.body, ix)],
                                  st.body, ExpandTemplate(template)),
                              !.includes = IF NamesFunctional(@) THEN @
                                           ELSE @ \cup {<<"functional">>}],
                          found, k + 1)
         IN  Substitute(FuncPtrReplacement(found[k]))

FuncPtrPass(includes, body) ==
    FuncPtrLoop([includes |-> includes, body |-> body, raised |-> FALSE],
                FindAll(
                    [ix \in DOMAIN body |-> FuncPtrAt(body, ix)], body, 1), 1)

(***************************************************************************)
(* _process_function_body                                                  *)
(***************************************************************************)
\* The translator after the call, the body returned, and whether the call
\* raised.
_process_function_body(t, body, seed) ==
    LET Processed(alloc, ptr) ==
            [t |-> [t EXCEPT !.malloc_variables = alloc.malloc_variables,
                             !.includes = ptr.includes],
             body |-> ptr.body,
             raised |-> ptr.raised]
        Rewritten(alloc) ==
            Processed(alloc,
                      FuncPtrPass(t.includes,
                          SwapPass(MathPass(t.includes,
                              ScanfPass(PrintfPass(alloc.body))))))
    IN  Rewritten(AllocationPass(t.malloc_variables, body, seed))

(***************************************************************************)
(* _translate_functions                                                    *)
(***************************************************************************)
\* Lines 293-296
IsStructFunction(t, params) ==
    \E k \in DOMAIN t.structs :
        Contains(params, <<"struct", SP>> \o t.structs[k][1] \o <<SP, "*">>)

\* param.split()[-1].replace('*', '')
RECURSIVE LastSpace(_, _)
LastSpace(s, i) ==
    IF i = 0 THEN 0 ELSE IF IsSpace(s[i]) THEN i ELSE LastSpace(s, i - 1)

LastFieldNoStar(param) ==
    LET NotStar(a) == a # "*"
    IN  SelectSeq(Slice(param, LastSpace(param, Len(param)) + 1,
                        Len(param) + 1),
                  NotStar)

\* Lines 307-314
CppParam(param) ==
    IF Contains(param, <<"char", SP, "*">>) \/ Contains(param, <<"char", "*">>)
    THEN <<"const", SP, "string", "&", SP>> \o LastFieldNoStar(param)
    ELSE param

CppParams(params) ==
    LET NonEmpty(p) == p # <<>>
        kept == SelectSeq(StripEach(Split(params, ",")), NonEmpty)
    IN  [k \in DOMAIN kept |-> CppParam(kept[k])]

\* FunctionsLoop with the test of line 288 left out: main is translated as
\* the other functions are.
RECURSIVE FunctionsLoop_KeepMain(_, _, _, _)
FunctionsLoop_KeepMain(st, found, k, seed) ==
    IF k > Len(found) \/ st.raised THEN st
    ELSE LET f == found[k]
             Translated(done) ==
                 FunctionsLoop_KeepMain(
                     [t |-> done.t,
                      raised |-> done.raised,
                      lines |-> st.lines \o
                          << <<"// C++ style function">>,
                             f.return_type \o <<SP>> \o f.name \o <<"(">>
                                 \o Join(CppParams(f.params), <<",", SP>>)
                                 \o <<")", SP, "{">>,
                             done.body,
                             <<"}">>,
                             <<>> >>],
                     found, k + 1, seed)
         IN  IF IsStructFunction(st.t, f.params)
             THEN FunctionsLoop_KeepMain(st, found, k + 1, seed)
             ELSE Translated(_process_function_body(st.t, f.body, seed))

\* Lines 286-322, for the functions found from the k-th on.
RECURSIVE FunctionsLoop(_, _, _, _)
FunctionsLoop(st, found, k, seed) ==
    IF k > Len(found) \/ st.raised THEN st
    ELSE LET f == found[k]
             Translated(done) ==
                 FunctionsLoop(
                     [t |-> done.t,
                      raised |-> done.raised,
                      lines |-> st.lines \o
                          << <<"// C++ style function">>,
                             f.return_type \o <<SP>> \o f.name \o <<"(">>
                                 \o Join(CppParams(f.params), <<",", SP>>)
                                 \o <<")", SP, "{">>,
                             done.body,
                             <<"}">>,
                             <<>> >>],
                     found, k + 1, seed)
         IN  IF f.name = <<"main">> \/ IsStructFunction(st.t, f.params)
             THEN FunctionsLoop(st, found, k + 1, seed)
             ELSE Translated(_process_function_body(st.t, f.body, seed))

_translate_functions(t, code, seed) ==
    FunctionsLoop([t |-> t, raised |-> FALSE, lines |-> <<>>],
                  FindAll([ix \in DOMAIN code |-> FunctionAt(code, ix)],
                          code, 1),
                  1, seed)

(***************************************************************************)
(* _translate_main_function                                                *)
(***************************************************************************)
\* main_signature_pattern, r'int\s+main\s*\([^)]*\)'
MainSignatureAt(s, i) ==
    LET Closed(e) == IF e <= Len(s) THEN [end |-> e + 1, start |-> i]
                     ELSE NoMatch
        FromCall(m) ==
            IF m.end = 0 THEN NoMatch ELSE Closed(SkipNot(s, m.end, {")"}))
    IN  FromCall(MainCallAt(s, i))

\* Lines 501-511: the index of the brace that closes the one opened before i,
\* with brace_count braces open; 0 when the text ends first.
RECURSIVE MatchingBrace(_, _, _)
MatchingBrace(s, i, brace_count) ==
    IF i > Len(s) THEN 0
    ELSE IF s[i] = "{" THEN MatchingBrace(s, i + 1, brace_count + 1)
    ELSE IF s[i] = "}"
    THEN (IF brace_count = 1 THEN i
          ELSE MatchingBrace(s, i + 1, brace_count - 1))
    ELSE MatchingBrace(s, i + 1, brace_count)

\* MainBody with the check of line 514 left out: a brace that is never closed
\* takes the rest of the text as the body.
MainBody_NoCloseCheck(code) ==
    LET Opened(sigs) ==
            IF sigs = <<>> THEN [found |-> FALSE, body |-> <<>>]
            ELSE [found |-> TRUE,
                  body |-> Slice(code,
                                 SkipNot(code, sigs[1].start, {"{"}) + 1,
                                 Len(code) + 1)]
    IN  Opened(FindAll(
            [ix \in DOMAIN code |-> MainSignatureAt(code, ix)], code, 1))

\* Lines 486-517: the body of main, or found = FALSE for the three early
\* returns.
MainBody(code) ==
    LET NotFound == [found |-> FALSE, body |-> <<>>]
        \* Lines 514-517
        Between(open_brace_pos, close_brace_pos) ==
            IF close_brace_pos = 0 THEN NotFound
            ELSE [found |-> TRUE,
                  body |-> Slice(code, open_brace_pos + 1, close_brace_pos)]
        \* Lines 496-511
        FromBrace(open_brace_pos) ==
            IF open_brace_pos > Len(code) THEN NotFound
            ELSE Between(open_brace_pos,
                         MatchingBrace(code, open_brace_pos + 1, 1))
        \* Lines 486-493
        FromSignature(sigs) ==
            IF sigs = <<>> THEN NotFound
            ELSE FromBrace(SkipNot(code, sigs[1].start, {"{"}))
    IN  FromSignature(FindAll(
            [ix \in DOMAIN code |-> MainSignatureAt(code, ix)], code, 1))

_translate_main_function(t, code, seed) ==
    LET Translated(done) ==
            [t |-> done.t,
             raised |-> done.raised,
             lines |-> << <<"// Main function">>,
                          <<"int", SP, "main", "(", "int", SP, "argc", ",",
                            SP, "char", "*", SP, "argv", "[", "]", ")", SP,
                            "{">>,
                          done.body,
                          <<"}">> >>]
        FromBody(main) ==
            IF ~main.found THEN [t |-> t, raised |-> FALSE, lines |-> <<>>]
            ELSE Translated(_process_function_body(t, main.body, seed))
    IN  FromBody(MainBody(code))

(***************************************************************************)
(* translate, split at its calls: what each group of lines appends to      *)
(* cpp_code and does to the translator.                                    *)
(***************************************************************************)
\* Lines 19-29
Identified(t, code) ==
    LET Globals(t1) ==
            IF _is_simple_program(code)
            THEN [t1 EXCEPT !.global_variables = {}]
            ELSE identify_global_variables(t1, code)
    IN  identify_struct_functions(
            identify_structs(
                Globals(identify_defines(identify_includes(t, code), code)),
                code),
            code)

WithBlank(lines) == IF lines = <<>> THEN <<>> ELSE lines \o << <<>> >>

\* Lines 33-54
HeaderSection(t, seed) ==
    _translate_includes(t, seed) \o << <<>> >>
        \o WithBlank(_translate_defines(t)) \o NamespaceLines(t)

\* Lines 56-60
ClassSection(t) == WithBlank(_translate_structs_to_classes(t))

\* Lines 62-66
GlobalSection(t, seed) == WithBlank(_translate_global_variables(t, seed))

\* The whole call on translator t: the text returned, the translator left
\* behind, and whether the call raised instead of returning.
translate(t, code, seed) ==
    LET Returned(head, funcs, main) ==
            [t |-> main.t,
             raised |-> funcs.raised \/ main.raised,
             text |-> Join(head \o funcs.lines \o main.lines, <<NL>>)]
        WithMain(head, funcs) ==
            Returned(head, funcs,
                     _translate_main_function(funcs.t, code, seed))
        Emitted(t1) ==
            WithMain(HeaderSection(t1, seed) \o ClassSection(t1)
                         \o GlobalSection(t1, seed),
                     _translate_functions(t1, code, seed))
    IN  Emitted(Identified(t, code))

(***************************************************************************)
(* The inputs of the model: source texts put together from a few lines     *)
(* and statements.                                                         *)
(***************************************************************************)
IncludeDirective(name) == <<"#", "include", SP, "<">> \o name \o <<">", NL>>

DefineDirective(name, value) ==
    <<"#", "define", SP>> \o name \o <<SP>> \o value \o <<NL>>

HeaderPool ==
    {IncludeDirective(name) :
        name \in {Header("stdio"), Header("math"), <<"iostream">>,
                  <<"algorithm">>, <<"iomanip">>, <<"vector">>}}

DefinePool ==
    {DefineDirective(<<"N">>, <<"5">>),
     DefineDirective(<<"N">>, <<"6">>),
     DefineDirective(<<"PI">>, <<"3", ".", "14">>),
     DefineDirective(<<"MSG">>, <<QT, "hi", QT>>),
     DefineDirective(<<"S">>, <<QT, "3", ".", "14", QT>>),
     DefineDirective(<<"X">>, <<"N", "+", "1">>),
     DefineDirective(<<"Q">>, <<QT>>),
     \* a function-like macro: #define SQ(x) ((x)*(x))
     <<"#", "define", SP, "SQ", "(", "x", ")", SP, "(", "(", "x", ")", "*",
       "(", "x", ")", ")", NL>>}

\* p = (int*) malloc(sizeof(int) * 10);  and  p = (int *)malloc(sizeof(int) * 10);
ArrayMallocStmt(cast) ==
    <<"p", SP, "=", SP, "(">> \o cast
        \o <<"malloc", "(", "sizeof", "(", "int", ")", SP, "*", SP, "10", ")",
             ";">>

\* p = (int*) malloc(sizeof(int));  and  p = (int *)malloc(sizeof(int));
SingleMallocStmt(cast) ==
    <<"p", SP, "=", SP, "(">> \o cast
        \o <<"malloc", "(", "sizeof", "(", "int", ")", ")", ";">>

SpecCast == <<"int", "*", ")", SP>>
CodeCast == <<"int", SP, "*", ")">>

FreeStmt == <<"free", "(", "p", ")", ";">>
PrintfValueStmt ==
    <<"printf", "(", QT, "Value", ":", SP, "%d", EscN, QT, ",", SP, "x", ")",
      ";">>
PrintfPrecStmt ==
    <<"printf", "(", QT, "%.2f", QT, ",", SP, "x", ")", ";">>
FuncPtrStmt ==
    <<"int", SP, "(", "*", "fp", ")", "(", "int", ")", SP, "=", SP, "&", "f",
      ";">>
IfStmt == <<"if", SP, "(", "x", ")", SP, "{", SP, "x", "+", "+", ";", SP, "}">>
ReturnStmt == <<"return", SP, "0", ";">>

AllocStmts ==
    {ArrayMallocStmt(SpecCast), ArrayMallocStmt(CodeCast),
     SingleMallocStmt(SpecCast), SingleMallocStmt(CodeCast)}

OtherStmts ==
    {PrintfValueStmt, PrintfPrecStmt, FuncPtrStmt, IfStmt, ReturnStmt,
     \* printf("hi\n");
     <<"printf", "(", QT, "hi", EscN, QT, ")", ";">>,
     \* scanf("%d", &x);
     <<"scanf", "(", QT, "%d", QT, ",", SP, "&", "x", ")", ";">>,
     \* x = sqrt(x);
     <<"x", SP, "=", SP, "sqrt", "(", "x", ")", ";">>}

\* The sequences of at most n elements of S.
RECURSIVE SeqsUpTo(_, _)
SeqsUpTo(S, n) ==
    IF n = 0 THEN {<<>>}
    ELSE LET shorter == SeqsUpTo(S, n - 1)
         IN  shorter \cup {Append(q, x) : q \in shorter, x \in S}

\* The statements of a body, each after one space, and a space at the end.
RECURSIVE BodyOf(_)
BodyOf(stmts) ==
    IF stmts = <<>> THEN <<SP>> ELSE <<SP>> \o stmts[1] \o BodyOf(Tail(stmts))

Optional(S) == {<<>>} \cup {<<x>> : x \in S}

\* An allocation, then maybe an indexing use, then maybe a deallocation.
AllocBodies ==
    {BodyOf(a \o i \o f) :
        a \in Optional(AllocStmts),
        \* p[0] = 1;
        i \in Optional({<<"p", "[", "0", "]", SP, "=", SP, "1", ";">>}),
        f \in Optional({FreeStmt})}

StmtBodies == {BodyOf(q) : q \in SeqsUpTo(OtherStmts, MaxStmts)}

MainWith(body) ==
    <<"int", SP, "main", "(", ")", SP, "{">> \o body \o <<"}", NL>>

PlainMain == MainWith(BodyOf(<<ReturnStmt>>))

\* The three ways main cannot be extracted, and a main that can.
MainForms ==
    {PlainMain,
     <<>>,
     <<"int", SP, "main", "(", ")", NL>>,
     <<"int", SP, "main", "(", ")", SP, "{", SP>> \o IfStmt \o <<NL>>}

StructItem ==
    <<"struct", SP, "Point", SP, "{", SP, "int", SP, "x", ";", SP, "int", SP,
      "y", ";", SP, "}", ";", NL>>

MethodItem ==
    <<"void", SP, "move", "(", "struct", SP, "Point", SP, "*", "p", ",", SP,
      "int", SP, "dx", ")", SP, "{", SP, "p", "-", ">", "x", SP, "=", SP, "dx",
      ";", SP, "}", NL>>

FunctionWith(body) ==
    <<"void", SP, "h", "(", "char", SP, "*", "s", ")", SP, "{">> \o body
        \o <<"}", NL>>

\* Bodies of int (*fp)(int) = g("\d");  and of  int (*fp)(int) = g("\n");
EscapeBodies ==
    {BodyOf(<< <<"int", SP, "(", "*", "fp", ")", "(", "int", ")", SP, "=", SP,
                 "g", "(", QT, e, QT, ")", ";">> >>) : e \in {EscN, EscD}}

ItemPool ==
    {StructItem, MethodItem, FunctionWith(BodyOf(<<FuncPtrStmt>>)),
     \* int g = 1;
     <<"int", SP, "g", SP, "=", SP, "1", ";", NL>>,
     \* const int k = 2;
     <<"const", SP, "int", SP, "k", SP, "=", SP, "2", ";", NL>>,
     \* typedef int T;
     <<"typedef", SP, "int", SP, "T", ";", NL>>,
     <<"/* note */", NL>>}

\* void <name>(<params>) {<body>}
MethodWith(name, params, body) ==
    <<"void", SP, name, "(">> \o params \o <<")", SP, "{">> \o body
        \o <<"}", NL>>

SelfParam == <<"struct", SP, "Point", SP, "*", "p">>
SetField(field) == <<"p", "-", ">", field, SP, "=", SP, "dx", ";">>

\* void show(struct Point *p) { printf("hi\n"); }
ShowItem ==
    MethodWith("show", SelfParam,
               BodyOf(<< <<"printf", "(", QT, "hi", EscN, QT, ")", ";">> >>))

\* void move(struct Point* p, int dx) { p->x = dx; }
TightMoveItem ==
    MethodWith("move",
               <<"struct", SP, "Point", "*", SP, "p", ",", SP, "int", SP, "dx">>,
               BodyOf(<<SetField("x")>>))

\* void set(int dx, struct Point *p) { p->x = dx; }
SecondSelfItem ==
    MethodWith("set", <<"int", SP, "dx", ",", SP>> \o SelfParam,
               BodyOf(<<SetField("x")>>))

\* void move(struct Point *p, int dx) { p->x = dx; y = sp>dx; sp.x = 1; }
\* (sp is the identifier made of the atoms s and p)
AccessItem ==
    MethodWith("move", SelfParam \o <<",", SP, "int", SP, "dx">>,
               BodyOf(<<SetField("x"),
                        <<"y", SP, "=", SP, "s", "p", ">", "dx", ";">>,
                        <<"s", "p", ".", "x", SP, "=", SP, "1", ";">> >>))

\* void move(struct Point *p, int dx) { if (dx) { p->x = dx; } p->y = dx; }
NestedMoveItem ==
    MethodWith("move", SelfParam \o <<",", SP, "int", SP, "dx">>,
               BodyOf(<< <<"if", SP, "(", "dx", ")", SP, "{", SP>>
                             \o SetField("x") \o <<SP, "}">>,
                         SetField("y") >>))

\* struct Point { union { int a; int b; } u; int y; };
NestedStructItem ==
    <<"struct", SP, "Point", SP, "{", SP, "union", SP, "{", SP, "int", SP,
      "a", ";", SP, "int", SP, "b", ";", SP, "}", SP, "u", ";", SP, "int", SP,
      "y", ";", SP, "}", ";", NL>>

\* int main() { while (x) { if (a) { x++; } else if (b) { x--; } } }
DeepMain ==
    MainWith(<<SP, "while", SP, "(", "x", ")", SP, "{", SP, "if", SP, "(",
               "a", ")", SP, "{", SP, "x", "+", "+", ";", SP, "}", SP, "else",
               SP, "if", SP, "(", "b", ")", SP, "{", SP, "x", "-", "-", ";",
               SP, "}", SP, "}", SP>>)

\* The texts made of at most n elements of a pool, one after the other.
TextsOf(pool, n) == {Flatten(q) : q \in SeqsUpTo(pool, n)}

Sources ==
    {h \o m : h \in TextsOf(HeaderPool, MaxIncludes),
              m \in {PlainMain, MainWith(BodyOf(<<PrintfPrecStmt>>))}}
    \cup {h \o d \o PlainMain :
             h \in {<<>>, IncludeDirective(Header("math"))},
             d \in TextsOf(DefinePool, MaxDefines)}
    \cup {h \o MainWith(b) : h \in {<<>>, IncludeDirective(Header("math"))},
                             b \in AllocBodies \cup StmtBodies}
    \cup {i \o m : i \in TextsOf(ItemPool, MaxItems), m \in MainForms}
    \cup {MainWith(b) : b \in EscapeBodies}
    \cup {FunctionWith(b) \o PlainMain : b \in EscapeBodies}
    \* a struct and a function that takes it
    \cup {StructItem \o f \o PlainMain :
             f \in {ShowItem, TightMoveItem, SecondSelfItem, AccessItem,
                    NestedMoveItem}}
    \cup {NestedStructItem \o PlainMain}
    \* every section; a function after main; a main of two levels of blocks
    \cup {DefineDirective(<<"N">>, <<"5">>)
              \o IncludeDirective(Header("stdio")) \o StructItem
              \o <<"int", SP, "g", SP, "=", SP, "1", ";", NL>>
              \o FunctionWith(BodyOf(<<ReturnStmt>>)) \o PlainMain,
          PlainMain \o FunctionWith(BodyOf(<<ReturnStmt>>)),
          DeepMain}
    \* an allocation in a function and the deallocation in main
    \cup {FunctionWith(BodyOf(<<a>>)) \o MainWith(BodyOf(i \o <<FreeStmt>>)) :
             a \in {ArrayMallocStmt(CodeCast), SingleMallocStmt(CodeCast)},
             i \in Optional({<<"p", "[", "0", "]", SP, "=", SP, "1", ";">>})}

\* The inputs of a second call on a translator that has been used.
ReuseSources ==
    {PlainMain,
     MainWith(BodyOf(<<FreeStmt>>)),
     DefineDirective(<<"N">>, <<"5">>) \o PlainMain,
     StructItem \o PlainMain,
     IncludeDirective(Header("stdio")) \o MainWith(BodyOf(<<PrintfPrecStmt>>))}

(***************************************************************************)
(* The state machine.                                                      *)
(*   hashSeed    the string-hash seed of the running Python process        *)
(*   translator  the fields of the CToCppTranslator object in use          *)
(*   c_code      the argument of the current (or last) translate call      *)
(*   cpp_code    the local list cpp_code of that call                      *)
(*   pc          where the call is: "idle" before the first call, the      *)
(*               name of the next step while it runs, then "done" (it      *)
(*               returned) or "raised" (it raised)                         *)
(*   result      what the call returned                                    *)
(*   twin        what the call before it returned, when that call had the  *)
(*               same argument                                             *)
(***************************************************************************)
NoResult == [done |-> FALSE, text |-> <<>>]

AtRest == pc \in {"idle", "done", "raised"}

Init ==
    /\ hashSeed \in 0..MaxSeed
    /\ translator = NoTranslator
    /\ c_code = <<>>
    /\ cpp_code = <<>>
    /\ pc = "idle"
    /\ result = NoResult
    /\ twin = NoResult

\* A new interpreter is started (each run of c_cpp.main is one): string
\* hashes get a new seed, and no object of the old process is left.
StartProcess ==
    /\ AtRest
    /\ hashSeed' \in 0..MaxSeed
    /\ translator' = NoTranslator
    /\ UNCHANGED <<c_code, cpp_code, pc, result, twin>>

\* app.py lines 173-174, c_cpp.py lines 532 and 571: a request makes a new
\* translator and calls translate on it.
Request(src) ==
    /\ AtRest
    /\ translator' = [NewTranslator EXCEPT !.uses = 1]
    /\ c_code' = src
    /\ cpp_code' = <<>>
    /\ pc' = "identify"
    /\ result' = NoResult
    /\ twin' = IF pc = "done" /\ src = c_code THEN result ELSE NoResult
    /\ UNCHANGED hashSeed

\* translate is called again on the translator of the call before.
CallAgain(src) ==
    /\ AtRest
    /\ translator.uses \in 1..(MaxUses - 1)
    /\ translator' = [translator EXCEPT !.uses = @ + 1]
    /\ c_code' = src
    /\ cpp_code' = <<>>
    /\ pc' = "identify"
    /\ result' = NoResult
    /\ twin' = NoResult
    /\ UNCHANGED hashSeed

\* translate, lines 19-29
Identify ==
    /\ pc = "identify"
    /\ translator' = Identified(translator, c_code)
    /\ pc' = "headers"
    /\ UNCHANGED <<hashSeed, c_code, cpp_code, result, twin>>

\* translate, lines 31-54
EmitHeaders ==
    /\ pc = "headers"
    /\ cpp_code' = HeaderSection(translator, hashSeed)
    /\ pc' = "classes"
    /\ UNCHANGED <<hashSeed, translator, c_code, result, twin>>

\* translate, lines 56-60
EmitClasses ==
    /\ pc = "classes"
    /\ cpp_code' = cpp_code \o ClassSection(translator)
    /\ pc' = "globals"
    /\ UNCHANGED <<hashSeed, translator, c_code, result, twin>>

\* translate, lines 62-66
EmitGlobals ==
    /\ pc = "globals"
    /\ cpp_code' = cpp_code \o GlobalSection(translator, hashSeed)
    /\ pc' = "functions"
    /\ UNCHANGED <<hashSeed, translator, c_code, result, twin>>

\* translate, lines 68-71
EmitFunctions ==
    /\ pc = "functions"
    /\ LET Emitted(r) ==
               /\ translator' = r.t
               /\ cpp_code' = IF r.raised THEN cpp_code ELSE cpp_code \o r.lines
               /\ pc' = IF r.raised THEN "raised" ELSE "main"
       IN  Emitted(_translate_functions(translator, c_code, hashSeed))
    /\ UNCHANGED <<hashSeed, c_code, result, twin>>

\* translate, lines 73-76
EmitMain ==
    /\ pc = "main"
    /\ LET Emitted(r) ==
               /\ translator' = r.t
               /\ cpp_code' = IF r.raised THEN cpp_code ELSE cpp_code \o r.lines
               /\ pc' = IF r.raised THEN "raised" ELSE "return"
       IN  Emitted(_translate_main_function(translator, c_code, hashSeed))
    /\ UNCHANGED <<hashSeed, c_code, result, twin>>

\* translate, line 78
Return ==
    /\ pc = "return"
    /\ result' = [done |-> TRUE, text |-> Join(cpp_code, <<NL>>)]
    /\ pc' = "done"
    /\ UNCHANGED <<hashSeed, translator, c_code, cpp_code, twin>>

Steps ==
    \/ Identify
    \/ EmitHeaders
    \/ EmitClasses
    \/ EmitGlobals
    \/ EmitFunctions
    \/ EmitMain
    \/ Return

\* The program as its callers run it: one new translator for each request.
Next ==
    \/ StartProcess
    \/ \E src \in Sources : Request(src)
    \/ Steps

Spec == Init /\ [][Next]_vars

\* The class as an object may be used: translate called more than once.
NextReuse ==
    \/ \E src \in Sources : Request(src)
    \/ \E src \in ReuseSources : CallAgain(src)
    \/ Steps

SpecReuse == Init /\ [][NextReuse]_vars

(***************************************************************************)
(* The properties.  What they say of a text is stated on the text itself:  *)
(* its lines, and the atoms it holds.                                      *)
(***************************************************************************)
\* The lines of a text: what stands between one newline and the next.
LinesOf(text) ==
    LET ends == {i \in DOMAIN text : text[i] = NL} \cup {Len(text) + 1}
        End(k) == CHOOSE e \in ends : Cardinality({x \in ends : x < e}) = k - 1
    IN  [k \in 1..Cardinality(ends) |->
            SubSeq(text, IF k = 1 THEN 1 ELSE End(k - 1) + 1, End(k) - 1)]

OutputLines == LinesOf(result.text)

IsIncludeLine(line) == LitAt(line, 1, <<"#", "include">>)

MainSectionLine == <<"// Main function">>

\* How many of the atoms of s from i to j are a.
Count(s, i, j, a) == Cardinality({k \in i..j : s[k] = a})

\* The brace at o is never closed: at every later index more braces have been
\* opened than closed.
NeverClosed(s, o) ==
    \A j \in (o + 1)..Len(s) : Count(s, o, j, "{") > Count(s, o, j, "}")

\* The three cases of C1: no signature of main, no brace after the first
\* signature, or its brace never closed.
MainMissing(code) ==
    LET starts == {i \in DOMAIN code :
                      LitAt(code, i, <<"int", SP, "main", "(">>)}
        first == CHOOSE i \in starts : \A j \in starts : i <= j
        opens == {k \in first..Len(code) : code[k] = "{"}
        open == CHOOSE k \in opens : \A j \in opens : k <= j
    IN  \/ starts = {}
        \/ opens = {}
        \/ NeverClosed(code, open)

C2_SameInputSameOutput ==
    (pc = "done" /\ twin.done) => result.text = twin.text

\* C3: what a call returns depends on its argument only: a call on a
\* translator that has been used returns what a new translator returns.
C3_NoStateAcrossCalls ==
    pc = "done" => result.text = translate(NewTranslator, c_code, hashSeed).text

\* C4: no #include line occurs twice in the text returned.
C4_IncludeLinesOnce ==
    pc = "done" =>
        \A i, j \in DOMAIN OutputLines :
            (i # j /\ IsIncludeLine(OutputLines[i]))
                => OutputLines[i] # OutputLines[j]

\* C5: when a function-pointer declaration has been rewritten to a
\* function<...> declaration, the text returned has #include <functional>.
C5_FunctionalIncluded ==
    (pc = "done" /\ Contains(result.text, <<"function", "<">>))
        => IncludeLine(<<"functional">>) \in Range(OutputLines)

\* C6: an array allocation of p with a free of p becomes p = new int[10]; and
\* delete[] p; and a scalar allocation with a free becomes p = new int; and
\* delete p; in the spacing p = (int*) malloc(...), whether or not the body
\* indexes p.
C6_AllocationRewritten ==
    pc = "done" =>
        /\ (Contains(c_code, ArrayMallocStmt(SpecCast) \o <<SP>>)
              /\ Contains(c_code, FreeStmt))
            => /\ Contains(result.text,
                           <<"p", SP, "=", SP, "new", SP, "int", "[", "10",
                             "]", ";">>)
               /\ Contains(result.text, <<"delete", "[", "]", SP, "p", ";">>)
        /\ (Contains(c_code, SingleMallocStmt(SpecCast) \o <<SP>>)
              /\ Contains(c_code, FreeStmt))
            => /\ Contains(result.text,
                           <<"p", SP, "=", SP, "new", SP, "int", ";">>)
               /\ Contains(result.text, <<"delete", SP, "p", ";">>)

\* C7: printf("Value: %d\n", x); becomes the text, then x, then endl, x once
\* and the newline escape as endl only: cout << "Value: " << x << endl;
C7_TrailingNewlineIsEndl ==
    (pc = "done" /\ Contains(c_code, PrintfValueStmt))
        => Contains(result.text,
                    <<"cout">> \o Shift \o <<QT, "Value", ":", SP, QT>>
                        \o Shift \o <<"x">> \o Shift \o <<"endl", ";">>)

\* C8: a struct of two int fields with one function of a struct pointer and
\* an int becomes a class with both fields in order, a constructor without
\* arguments, and one method that is declared and defined with the int
\* parameter only: void move(int dx).
C8_MethodDropsSelfParameter ==
    (pc = "done" /\ Contains(c_code, StructItem)
                 /\ Contains(c_code, MethodItem))
        => /\ \E k \in DOMAIN OutputLines :
                  /\ OutputLines[k] = <<"class", SP, "Point", SP, "{">>
                  /\ OutputLines[k + 1] = <<"public", ":">>
                  /\ OutputLines[k + 2] = indent_str \o <<"int", SP, "x", ";">>
                  /\ OutputLines[k + 3] = indent_str \o <<"int", SP, "y", ";">>
           /\ indent_str \o <<"Point", "(", ")", SP, "{", "}">>
                  \in Range(OutputLines)
           /\ indent_str \o <<"void", SP, "move", "(", "int", SP, "dx", ")",
                              ";">> \in Range(OutputLines)
           /\ <<"void", SP, "Point", ":", ":", "move", "(", "int", SP, "dx",
                ")", SP, "{">> \in Range(OutputLines)

\* The texts of the inputs that no step of translate looks for: a macro with
\* a parameter, a typedef and a comment, outside every function.
UnrecognizedTexts ==
    {<<"#", "define", SP, "SQ", "(", "x", ")", SP, "(", "(", "x", ")", "*",
       "(", "x", ")", ")">>,
     <<"typedef", SP, "int", SP, "T", ";">>,
     <<"/* note */">>}

\* C9: a construct of the input that no step recognizes is in the text
\* returned, unchanged.
C9_UnrecognizedKept ==
    pc = "done" =>
        \A u \in UnrecognizedTexts :
            Contains(c_code, u) => Contains(result.text, u)

\* The #define lines of a source that give a name a value: #define, the name,
\* a space, the value.
IsDefineLine(line) ==
    /\ Len(line) >= 6
    /\ LitAt(line, 1, <<"#", "define", SP>>)
    /\ IsWord(line[4])
    /\ line[5] = SP

DefineLinesOf(code) == SelectSeq(LinesOf(code), IsDefineLine)

\* The type C10 gives a value.
TypeByShape(value) ==
    LET quoted == value[1] = QT /\ value[Len(value)] = QT
        point == "." \in Range(value)
        digits == \A k \in DOMAIN value : value[k] \in DigitAtoms
    IN  CASE quoted -> "string"
          [] ~quoted /\ point -> "double"
          [] ~quoted /\ ~point /\ digits -> "int"
          [] OTHER -> "auto"

\* One constant for each name, in the order in which the names first appear
\* in the source, each with the value its name was given last.
ExpectedConstants(code) ==
    LET d == DefineLinesOf(code)
        Name(k) == d[k][4]
        Value(k) == SubSeq(d[k], 6, Len(d[k]))
        firsts == {k \in DOMAIN d : \A j \in 1..(k - 1) : Name(j) # Name(k)}
        Nth(n) == CHOOSE k \in firsts :
                      Cardinality({j \in firsts : j < k}) = n - 1
        Last(k) == CHOOSE j \in DOMAIN d :
                       /\ Name(j) = Name(k)
                       /\ \A i \in DOMAIN d : Name(i) = Name(k) => i <= j
    IN  [n \in 1..Cardinality(firsts) |->
            <<"const", SP, TypeByShape(Value(Last(Nth(n)))), SP, Name(Nth(n)),
              SP, "=", SP>> \o Value(Last(Nth(n))) \o <<";">>]

ConstantsHeading == <<"// Constants (converted from #define)">>

\* C10: the text returned has one constant for each macro constant of the
\* source, typed by the shape of its value (quoted: string; else with a
\* decimal point: double; else all digits: int; else auto), and the constants
\* stand in the order in which their names first appear in the source.
C10_ConstantsTypedInOrder ==
    pc = "done" =>
        LET expected == ExpectedConstants(c_code)
        IN  IF expected = <<>> THEN ConstantsHeading \notin Range(OutputLines)
            ELSE \E k \in DOMAIN OutputLines :
                     /\ OutputLines[k] = ConstantsHeading
                     /\ k + Len(expected) + 1 <= Len(OutputLines)
                     /\ \A n \in DOMAIN expected :
                            OutputLines[k + n] = expected[n]
                     /\ OutputLines[k + Len(expected) + 1] = <<>>

\* A call has returned the constants of a source that defines a quoted value
\* with a decimal point in it, and then an all-digit value: a string constant,
\* then an int constant.
C10_Witness ==
    /\ pc = "done"
    /\ Len(DefineLinesOf(c_code)) = 2
    /\ <<"const", SP, "string", SP, "S", SP, "=", SP, QT, "3", ".", "14", QT,
         ";">> \in Range(OutputLines)
    /\ <<"const", SP, "int", SP, "N", SP, "=", SP, "5", ";">>
           \in Range(OutputLines)
    /\ \E i, j \in DOMAIN OutputLines :
           /\ i < j
           /\ LitAt(OutputLines[i], 1, <<"const", SP, "string", SP, "S">>)
           /\ LitAt(OutputLines[j], 1, <<"const", SP, "int", SP, "N">>)

\* The place of a line among the sections: 1 to 7 for the heading of the
\* includes, the constants, the namespace directive, a class or its method
\* bodies, the global variables, a function and main; 0 for another line.
SectionRank(line) ==
    IF line = <<>> THEN 0
    ELSE CASE line[1] = "// C++ style includes" -> 1
           [] line[1] = "// Constants (converted from #define)" -> 2
           [] line[1] = "// Using standard namespace" -> 3
           [] line[1] \in {"// Class converted from struct",
                           "// Method implementations for class"} -> 4
           [] line[1] = "// Global variables" -> 5
           [] line[1] = "// C++ style function" -> 6
           [] line[1] = "// Main function" -> 7
           [] OTHER -> 0

IsMainDefinition(line) == LitAt(line, 1, <<"int", SP, "main", "(">>)

MainSignatureLine ==
    <<"int", SP, "main", "(", "int", SP, "argc", ",", SP, "char", "*", SP,
      "argv", "[", "]", ")", SP, "{">>

\* How many atoms a stand in the lines a to b of L.
CountInLines(L, a, b, ch) ==
    Cardinality(UNION {{<<k, i>> : i \in {x \in DOMAIN L[k] : L[k][x] = ch}} :
                          k \in a..b})

\* C11: in the text returned for a source whose main can be extracted, the
\* headings of the sections stand in the order includes, constants,
\* namespace, classes, globals, functions, main; main is defined once; and
\* the text ends with the brace that closes main.
C11_SectionsInOrderMainLast ==
    (pc = "done" /\ ~MainMissing(c_code)) =>
        LET L == OutputLines
            n == Len(L)
            Ranked(r) == {k \in DOMAIN L : SectionRank(L[k]) = r}
            heads == {k \in DOMAIN L : SectionRank(L[k]) > 0}
        IN  /\ \A i, j \in heads :
                   i < j => SectionRank(L[i]) <= SectionRank(L[j])
            /\ Ranked(1) = {1}
            /\ Cardinality(Ranked(3)) = 1
            /\ Cardinality(Ranked(7)) = 1
            /\ Cardinality({k \in DOMAIN L : IsMainDefinition(L[k])}) = 1
            /\ \A k \in Ranked(7) :
                   /\ k + 2 <= n
                   /\ L[k + 1] = MainSignatureLine
                   /\ L[n] = <<"}">>
                   /\ \A j \in (k + 1)..(n - 1) :
                          CountInLines(L, k + 1, j, "{")
                              > CountInLines(L, k + 1, j, "}")

\* A call has returned the text for a source that defines a function after
\* main: the function stands before main, and main ends the text.
C11_Witness ==
    /\ pc = "done"
    /\ c_code = PlainMain \o FunctionWith(BodyOf(<<ReturnStmt>>))
    /\ \E i, j \in DOMAIN OutputLines :
           /\ i < j
           /\ OutputLines[i] = <<"// C++ style function">>
           /\ OutputLines[j] = MainSectionLine
           /\ OutputLines[j + 1] = MainSignatureLine
    /\ OutputLines[Len(OutputLines)] = <<"}">>


\* C12: every body that is emitted has gone through the rewriting passes,
\* the body of a method that is emitted out of line included:
\* printf("hi\n"); in it has become cout << "hi" << endl;
C12_MethodBodyRewritten ==
    (pc = "done" /\ Contains(c_code, ShowItem))
        => /\ Contains(result.text,
                       <<"cout">> \o Shift \o <<QT, "hi", QT>> \o Shift
                           \o <<"endl", ";">>)
           /\ ~Contains(result.text, <<"printf", "(">>)

\* The lines of the text returned that open the definition of the function
\* name: they start with void, name the function before a parenthesis, and end with the
\* opening brace.
DefinitionsOf(text, name) ==
    LET L == LinesOf(text)
    IN  {k \in DOMAIN L :
            /\ LitAt(L[k], 1, <<"void", SP>>)
            /\ \/ Contains(L[k], <<SP, name, "(">>)
               \/ Contains(L[k], <<":", name, "(">>)
            /\ L[k][Len(L[k])] = "{"}

\* C13: a function that the source defines once is emitted once: as a method
\* of class Point when its first parameter is a pointer to struct Point,
\* however the star is spaced, and as a function otherwise.
C13_FunctionEmittedOnce ==
    pc = "done" =>
        \A name \in {"move", "set", "show", "h"} :
            Cardinality({i \in DOMAIN c_code :
                            LitAt(c_code, i, <<"void", SP, name, "(">>)}) = 1
                => LET L == OutputLines
                       defs == DefinitionsOf(result.text, name)
                       first ==
                           \/ Contains(c_code, <<name, "(">> \o SelfParam)
                           \/ Contains(c_code,
                                       <<name, "(", "struct", SP, "Point",
                                         "*", SP, "p">>)
                       method ==
                           first /\ Contains(c_code,
                                             <<"struct", SP, "Point", SP, "{">>)
                   IN  /\ Cardinality(defs) = 1
                       /\ \A k \in defs :
                              method <=> LitAt(L[k], 1,
                                               <<"void", SP, "Point", ":", ":",
                                                 name, "(">>)

\* C14: in the body of a method that is emitted, p->x of the self-parameter p
\* has become this->x, and the identifier sp, which ends with the name of
\* the self-parameter, is as it was.
C14_SelfAccessRewritten ==
    (pc = "done" /\ Contains(c_code, StructItem))
        => /\ Contains(c_code, MethodItem)
               => Contains(result.text,
                           <<"this", "-", ">", "x", SP, "=", SP, "dx", ";">>)
           /\ Contains(c_code, AccessItem)
               => /\ Contains(result.text,
                              <<"this", "-", ">", "x", SP, "=", SP, "dx", ";">>)
                  /\ Contains(result.text, <<"s", "p", ">", "dx", ";">>)
                  /\ Contains(result.text, <<"s", "p", ".", "x", SP, "=">>)


\* C15: free(p); in main, for a p that a function before main has allocated,
\* becomes delete[] p; when the allocation was of an array and delete p; when
\* it was of one object; and free(p); for a p that no body allocates stays.
C15_FreeByRecordedShape ==
    (pc = "done" /\ Contains(c_code, <<SP>> \o FreeStmt))
        => /\ Contains(c_code,
                       FunctionWith(BodyOf(<<ArrayMallocStmt(CodeCast)>>)))
               => Contains(result.text, <<"delete", "[", "]", SP, "p", ";">>)
           /\ Contains(c_code,
                       FunctionWith(BodyOf(<<SingleMallocStmt(CodeCast)>>)))
               => Contains(result.text, <<"delete", SP, "p", ";">>)
           /\ ~Contains(c_code, <<"malloc">>)
               => Contains(result.text, FreeStmt)

\* The initializers of the function pointers of EscapeBodies: g("\n") and
\* g("\d").
EscapeInitializers == {<<"g", "(", QT, e, QT, ")">> : e \in {EscN, EscD}}

\* C16: no pass raises, and the function-pointer pass puts the initializer it
\* has captured into the declaration it writes as it stands in the source.
C16_NoPassRaises ==
    /\ pc # "raised"
    /\ pc = "done" =>
           \A init \in EscapeInitializers :
               Contains(c_code, <<"=", SP>> \o init \o <<";">>)
                   => Contains(result.text,
                               <<"fp", SP, "=", SP>> \o init \o <<";">>)

\* The index of the brace that closes the brace at o: the first index after o
\* up to which as many braces have been closed as opened; 0 if there is none.
ClosingBrace(s, o) ==
    LET closes == {j \in (o + 1)..Len(s) :
                      Count(s, o, j, "{") = Count(s, o, j, "}")}
    IN  IF closes = {} THEN 0
        ELSE CHOOSE j \in closes : \A x \in closes : j <= x

\* What stands between the brace at o and the brace that closes it.
Balanced(s, o) == SubSeq(s, o + 1, ClosingBrace(s, o) - 1)

\* The first opening brace of s from i on.
FirstOpen(s, i) ==
    CHOOSE o \in i..Len(s) : s[o] = "{" /\ \A x \in i..(o - 1) : s[x] # "{"

\* C17: once the source has been analysed, the text recorded for struct Point
\* is what stands between its opening brace and the brace that closes it
\* (stripped), and the body recorded for a function of struct Point is what
\* stands between the function's opening brace and the brace that closes it.
C17_BlocksBoundedByBalance ==
    (translator.uses > 0
         /\ pc \in {"headers", "classes", "globals", "functions", "main",
                    "return", "done"}) =>
        LET structs == {i \in DOMAIN c_code :
                           LitAt(c_code, i, <<"struct", SP, "Point", SP, "{">>)}
            funcs == {i \in DOMAIN c_code :
                         LitAt(c_code, i, <<"(">> \o SelfParam)}
        IN  structs # {} =>
                /\ \A i \in structs :
                       <<<<"Point">>, Strip(Balanced(c_code, i + 4))>>
                           \in Range(translator.structs)
                /\ \A i \in funcs :
                       \E k \in DOMAIN translator.struct_to_functions :
                           \E f \in Range(translator.struct_to_functions[k][2]) :
                               f.body = Balanced(c_code, FirstOpen(c_code, i))

====
